---- MODULE Spec2Model ----
(***************************************************************************)
(* Model of the timing utility of dpvo/utils.py: the process-wide recorder *)
(* all_times, the Timer context manager that appends elapsed durations to  *)
(* it, and print_timing_summary, which folds the dotted names into a tree  *)
(* of _Node objects and prints it.                                         *)
(*                                                                         *)
(* A name is a sequence of one-character strings (<<"x", ".", "y">> is     *)
(* "x.y"), so that str.split and the '.'-join are computed, not assumed.   *)
(* Durations are whole milliseconds.                                       *)
(***************************************************************************)
EXTENDS Integers, Sequences, FiniteSets, TLC

VARIABLES
    all_times,  \* the recorder: sequence of [name, times], in key insertion order
    root,       \* the _Node heap the last print_timing_summary call built
    output,     \* what the last print_timing_summary call printed
    streak,     \* consecutive print_timing_summary calls since any other operation (0..2)
    timers,     \* the Timer objects: slot -> NoTimer or [name, enabled, start, end]
    stack,      \* the scopes entered and not yet exited, innermost last
    clock,      \* the device clock read by Event.record()
    recorded,   \* history: name -> the durations recorded under it, in order
    threads,    \* worker threads: [pc, timer, elapsed], each in "with Timer(name):"
    rep,        \* the thread calling print_timing_summary: [pc, used, pos]
    seen        \* history: the recorder states that existed during the current call

vars == <<all_times, root, output, streak, timers, stack, clock, recorded,
          threads, rep, seen>>

seqvars == <<timers, stack>>

thrvars == <<threads, rep, seen>>

----------------------------------------------------------------------------
(* Bounds and input pools *)

MaxKeys == 3

MaxTimers == 1

MaxThreads == 2

MaxScopes == 2

MaxDepth == 2

MaxSamples == 2

Sep == "."

NamePool ==
    { <<>>,
      <<"x">>,
      <<"z">>,
      <<"x", ".", "y">>,
      <<"x", ".", "z">>,
      <<"x", ".">>,
      <<"x", ".", "y", ".", "z">> }

TimerNames == { <<"x">>, <<"x", ".", "y">>, <<"z">> }

ThreadNames == { <<"x">>, <<"x", ".", "y">> }

SamplePool == { <<5>>, <<10, 20>> }

----------------------------------------------------------------------------
(* sum() *)

RECURSIVE SumSeq(_)
SumSeq(s) == IF s = <<>> THEN 0 ELSE Head(s) + SumSeq(Tail(s))

----------------------------------------------------------------------------
(* The recorder, a defaultdict(list) *)

HasKey(at, name) == \E i \in 1..Len(at) : at[i].name = name

KeyIndex(at, name) == CHOOSE i \in 1..Len(at) : at[i].name = name

TimesOf(at, name) == IF HasKey(at, name) THEN at[KeyIndex(at, name)].times ELSE <<>>

\* Mutant: the subscript stores a new empty list whether or not the key exists.
SubscriptFresh(at, name) ==
    IF \E i \in 1..Len(at) : at[i].name = name
    THEN [at EXCEPT ![CHOOSE i \in 1..Len(at) : at[i].name = name].times = <<>>]
    ELSE Append(at, [name |-> name, times |-> <<>>])

\* all_times[name]: defaultdict.__getitem__, which inserts an empty list for a
\* missing key (at the end of the insertion order) and leaves the rest alone.
Subscript(at, name) ==
    IF HasKey(at, name) THEN at
    ELSE Append(at, [name |-> name, times |-> <<>>])

\* list.append on the list stored under name (the key exists).
ListAppend(at, name, elapsed) ==
    [at EXCEPT ![KeyIndex(at, name)].times = Append(@, elapsed)]

----------------------------------------------------------------------------
(* str.split('.') *)

RECURSIVE SplitFrom(_, _, _)
\* Scan s; cur is the segment being read, acc the segments closed so far.
SplitFrom(s, cur, acc) ==
    IF s = <<>> THEN Append(acc, cur)
    ELSE IF Head(s) = Sep THEN SplitFrom(Tail(s), <<>>, Append(acc, cur))
    ELSE SplitFrom(Tail(s), Append(cur, Head(s)), acc)

\* Mutant: the empty string has no segments.
SplitEmptyIsNoSegment(name) == IF name = <<>> THEN <<>> ELSE SplitFrom(name, <<>>, <<>>)

Split(name) == SplitFrom(name, <<>>, <<>>)

----------------------------------------------------------------------------
(* _Node objects live in a heap: a sequence of nodes, a node's id being its *)
(* index.  children is the defaultdict(_Node), kept in insertion order.     *)

NewNode == [self_times |-> <<>>, children |-> <<>>]

RootId == 1

HasChild(heap, id, seg) ==
    \E k \in 1..Len(heap[id].children) : heap[id].children[k].name = seg

ChildId(heap, id, seg) ==
    LET k == CHOOSE k \in 1..Len(heap[id].children) : heap[id].children[k].name = seg
    IN  heap[id].children[k].node

\* Mutant: a child is created on every access, found or not.
ChildGetAlwaysNew(heap, id, seg) ==
    Append([heap EXCEPT ![id].children =
               Append(@, [name |-> seg, node |-> Len(heap) + 1])],
           NewNode)

\* Mutant: a new child is put before the existing ones.
ChildGetPrepend(heap, id, seg) ==
    IF HasChild(heap, id, seg) THEN heap
    ELSE Append([heap EXCEPT ![id].children =
                    <<[name |-> seg, node |-> Len(heap) + 1]>> \o @],
                NewNode)

\* self.children[seg]: creates the child on first access.
ChildGet(heap, id, seg) ==
    IF HasChild(heap, id, seg) THEN heap
    ELSE LET new == Len(heap) + 1
         IN  Append([heap EXCEPT ![id].children =
                        Append(@, [name |-> seg, node |-> new])],
                    NewNode)

RECURSIVE NodeExtendInclusive(_, _, _, _)
\* Mutant: the values are also added to every node on the way down.
NodeExtendInclusive(heap, id, parts, values) ==
    IF parts = <<>>
    THEN [heap EXCEPT ![id].self_times = @ \o values]
    ELSE LET h == ChildGet(heap, id, Head(parts))
             g == IF id = RootId THEN h ELSE [h EXCEPT ![id].self_times = @ \o values]
         IN  NodeExtendInclusive(g, ChildId(g, id, Head(parts)), Tail(parts), values)

RECURSIVE NodeExtend(_, _, _, _)
NodeExtend(heap, id, parts, values) ==
    IF parts = <<>>
    THEN [heap EXCEPT ![id].self_times = @ \o values]
    ELSE LET h == ChildGet(heap, id, Head(parts))
         IN  NodeExtend(h, ChildId(h, id, Head(parts)), Tail(parts), values)

RECURSIVE BuildFrom(_, _, _)
\* The loop "for fullname, lst in all_times.items()", from item i on.
BuildFrom(heap, at, i) ==
    IF i > Len(at) THEN heap
    ELSE BuildFrom(NodeExtend(heap, RootId, Split(at[i].name), at[i].times), at, i + 1)

BuildTree(at) == BuildFrom(<<NewNode>>, at, 1)

----------------------------------------------------------------------------
(* _print_exclusive *)

\* The significand of a double has 53 bits.
MantissaBits == 53

RECURSIVE Gcd(_, _)
Gcd(a, b) == IF b = 0 THEN a ELSE Gcd(b, a % b)

RECURSIVE IsPowerOfTwo(_)
IsPowerOfTwo(n) == n = 1 \/ (n > 1 /\ n % 2 = 0 /\ IsPowerOfTwo(n \div 2))

RECURSIVE BitLength(_)
BitLength(n) == IF n = 0 THEN 0 ELSE 1 + BitLength(n \div 2)

RECURSIVE FracBit(_, _, _)
\* The n-th binary digit after the point of r/count (r < count), by long division.
FracBit(r, count, n) ==
    IF n = 1 THEN (IF 2 * r >= count THEN 1 ELSE 0)
    ELSE FracBit((2 * r) % count, count, n - 1)

RECURSIVE LeadingZeros(_, _)
\* The number of zero digits after the point of r/count before its first one (0 < r < count).
LeadingZeros(r, count) ==
    IF 2 * r >= count THEN 0 ELSE 1 + LeadingZeros(2 * r, count)

\* total/count as a double is inexact (the quotient is no binary fraction):
\* whether the double is the quotient rounded up, which is what the first
\* digit beyond the significand says.
DoubleRoundsUp(total, count) ==
    LET int == total \div count
        r == total % count
    IN  IF int > 0
        THEN FracBit(r, count, MantissaBits + 1 - BitLength(int)) = 1
        ELSE FracBit(r, count, LeadingZeros(r, count) + MantissaBits + 1) = 1

\* f"{avg:.2f}" of avg = total/count, in hundredths of a millisecond.  The
\* format rounds the double to the nearest hundredth.  When the quotient is
\* not halfway between two hundredths, the double rounds as the quotient does.
\* When it is halfway and a binary fraction, the double is the quotient and the
\* tie goes to the even hundredth; when it is halfway and no binary fraction,
\* the double lies beside the tie, on the side the division rounded to.
AvgCenti(total, count) ==
    IF count = 0 THEN 0
    ELSE LET q == (100 * total) \div count
             r == (100 * total) % count
         IN  IF 2 * r > count THEN q + 1
             ELSE IF 2 * r < count THEN q
             ELSE IF IsPowerOfTwo(count \div Gcd(total, count))
                  THEN (IF q % 2 = 0 THEN q ELSE q + 1)
             ELSE IF DoubleRoundsUp(total, count) THEN q + 1 ELSE q

\* One printed line.  pad counts the 4-space units of indentation; path (the
\* segments from the root to the node) is bookkeeping that is not printed.
Line(heap, id, name, indent, path) ==
    LET total == SumSeq(heap[id].self_times)
        count == Len(heap[id].self_times)
    IN  [pad |-> indent, name |-> name, total |-> total, count |-> count,
         avg |-> AvgCenti(total, count), path |-> path]

RECURSIVE PrintExclusive(_, _, _, _, _)
RECURSIVE PrintChildren(_, _, _, _, _)
PrintExclusive(heap, id, name, indent, path) ==
    (IF name # <<>> THEN <<Line(heap, id, name, indent, path)>> ELSE <<>>)
    \o PrintChildren(heap, id, 1, indent, path)

PrintChildren(heap, id, k, indent, path) ==
    IF k > Len(heap[id].children) THEN <<>>
    ELSE LET c == heap[id].children[k]
         IN  PrintExclusive(heap, c.node, c.name, indent + 1, Append(path, c.name))
             \o PrintChildren(heap, id, k + 1, indent, path)

Header == [header |-> "=== timing summary ==="]

----------------------------------------------------------------------------
(* print_timing_summary: the tree is a local, rebuilt from all_times *)

\* Mutant: the report empties the recorder once it has printed.
ReportCallClearing ==
    /\ root' = BuildTree(all_times)
    /\ output' = <<Header>> \o PrintExclusive(root', RootId, <<>>, 0, <<>>)
    /\ all_times' = <<>>
    /\ streak' = IF streak < 2 THEN streak + 1 ELSE 2

ReportCall ==
    /\ root' = BuildTree(all_times)
    /\ output' = <<Header>> \o PrintExclusive(root', RootId, <<>>, 0, <<>>)
    /\ all_times' = all_times
    /\ streak' = IF streak < 2 THEN streak + 1 ELSE 2

----------------------------------------------------------------------------
(* Report on recorder states drawn from the pools *)

RECURSIVE KeySeqs(_)
KeySeqs(n) ==
    IF n = 0 THEN { <<>> }
    ELSE LET shorter == KeySeqs(n - 1)
         IN  shorter \cup
             { Append(s, nm) : s \in { t \in shorter : Len(t) = n - 1 },
                               nm \in NamePool }

DistinctKeySeqs == { s \in KeySeqs(MaxKeys) :
                       \A i, j \in 1..Len(s) : i # j => s[i] # s[j] }

RecorderStates ==
    UNION { { [i \in 1..Len(ks) |-> [name |-> ks[i], times |-> f[i]]] :
                f \in [1..Len(ks) -> SamplePool] } : ks \in DistinctKeySeqs }

\* An unbound slot.
NoTimer == [bound |-> FALSE]

Threads == 1..MaxThreads

IdleThread == [pc |-> "idle", timer |-> NoTimer, elapsed |-> 0]

IdleReporter == [pc |-> "idle", used |-> 0, pos |-> 0]

TimerSlots == 1..MaxTimers

InitRest ==
    /\ root = <<>>
    /\ output = <<>>
    /\ streak = 0
    /\ timers = [s \in TimerSlots |-> NoTimer]
    /\ stack = <<>>
    /\ clock = 0
    /\ threads = [th \in Threads |-> IdleThread]
    /\ rep = IdleReporter
    /\ seen = {}

InitReport ==
    /\ all_times \in RecorderStates
    /\ recorded = [n \in NamePool |-> TimesOf(all_times, n)]
    /\ InitRest

PrintTimingSummary ==
    /\ ReportCall
    /\ UNCHANGED <<timers, stack, clock, recorded, thrvars>>

NextReport == PrintTimingSummary

SpecReport == InitReport /\ [][NextReport]_vars

----------------------------------------------------------------------------
(* Timer: __init__, __enter__, __exit__ on one thread of control *)

\* Mutant: the flag is not consulted.
EnabledIgnored(t) == TRUE

\* "if self.enabled:", the guard of all three methods.
Enabled(t) == t.enabled

\* torch.cuda.Event(enable_timing=True): an event nothing was recorded on.
NewEvent == [exists |-> TRUE, recorded |-> FALSE, at |-> 0]

\* The attribute does not exist.
NoEvent == [exists |-> FALSE, recorded |-> FALSE, at |-> 0]

\* Event.record() at device time now.
Recorded(now) == [exists |-> TRUE, recorded |-> TRUE, at |-> now]

\* Timer.__init__.
NewTimer(name, enabled) ==
    LET t == [bound |-> TRUE, name |-> name, enabled |-> enabled,
              start |-> NoEvent, end |-> NoEvent]
    IN  IF Enabled(t) THEN [t EXCEPT !.start = NewEvent, !.end = NewEvent] ELSE t

\* start.elapsed_time(end), in milliseconds.
ElapsedTime(start, end) == end.at - start.at

\* Any other operation ends the streak of reports; the tree of the last call
\* is gone and its output is no longer the last thing printed.
Forget ==
    /\ root' = <<>>
    /\ output' = <<>>
    /\ streak' = 0

RECURSIVE TotalFrom(_, _)
TotalFrom(at, i) == IF i > Len(at) THEN 0 ELSE Len(at[i].times) + TotalFrom(at, i + 1)

TotalSamples(at) == TotalFrom(at, 1)

Active(s) == \E k \in 1..Len(stack) : stack[k].timer = s

Recording == Len(SelectSeq(stack, LAMBDA e : Enabled(timers[e.timer])))

\* t = Timer(name, enabled): the slot is bound to a fresh object.
TimerInit(s, name, enabled) ==
    /\ ~Active(s)
    /\ timers' = [timers EXCEPT ![s] = NewTimer(name, enabled)]
    /\ Forget
    /\ UNCHANGED <<all_times, stack, clock, recorded, thrvars>>

\* Timer.__enter__.  The stack entry remembers when this scope began.
Enter(s) ==
    /\ timers[s].bound
    /\ Len(stack) < MaxDepth
    /\ Enabled(timers[s]) => TotalSamples(all_times) + Recording < MaxSamples
    /\ stack' = Append(stack, [timer |-> s, begin |-> clock])
    /\ IF Enabled(timers[s])
       THEN /\ timers' = [timers EXCEPT ![s].start = Recorded(clock)]
            /\ clock' = clock + 1
       ELSE UNCHANGED <<timers, clock>>
    /\ Forget
    /\ UNCHANGED <<all_times, recorded, thrvars>>

\* Timer.__exit__ of the innermost scope.
Exit ==
    /\ stack # <<>>
    /\ LET top == stack[Len(stack)]
           s == top.timer
           t == timers[s]
           elapsed == ElapsedTime(t.start, Recorded(clock))
       IN  /\ stack' = SubSeq(stack, 1, Len(stack) - 1)
           /\ IF Enabled(t)
              THEN /\ timers' = [timers EXCEPT ![s].end = Recorded(clock)]
                   /\ clock' = clock + 1
                   /\ all_times' = ListAppend(Subscript(all_times, t.name), t.name, elapsed)
                   /\ recorded' = [recorded EXCEPT ![t.name] = Append(@, elapsed)]
              ELSE UNCHANGED <<timers, clock, all_times, recorded>>
    /\ Forget
    /\ UNCHANGED thrvars

Init ==
    /\ all_times = <<>>
    /\ recorded = [n \in NamePool |-> <<>>]
    /\ InitRest

Next ==
    \/ \E s \in TimerSlots, name \in TimerNames, enabled \in BOOLEAN :
          TimerInit(s, name, enabled)
    \/ \E s \in TimerSlots : Enter(s)
    \/ Exit
    \/ PrintTimingSummary

Spec == Init /\ [][Next]_vars

----------------------------------------------------------------------------
(* Several threads, each running "with Timer(name): ..." on a Timer of its  *)
(* own, and one thread calling print_timing_summary.  A step is what the    *)
(* interpreter runs without letting another thread in: one statement of     *)
(* thread-local work, the wait in synchronize(), one dict subscript, one    *)
(* list.append, one step of the dict iterator.                              *)

RECURSIVE CountRecorded(_)
CountRecorded(names) ==
    IF names = {} THEN 0
    ELSE LET n == CHOOSE n \in names : TRUE
         IN  Len(recorded[n]) + CountRecorded(names \ {n})

ScopesBegun ==
    CountRecorded(NamePool) + Cardinality({ th \in Threads : threads[th].pc # "idle" })

InCall == rep.pc \in {"next", "extend", "print"}

Returned == rep.pc \in {"done", "failed"}

\* A step of a worker thread that leaves the recorder at at.  A call of
\* print_timing_summary that has ended (printed, or raised) has returned by
\* then: its tree is gone and its output is no longer the last thing printed.
\* While a call is running, the recorder states it could have read are kept.
WorkerStep(at) ==
    /\ rep' = IF Returned THEN IdleReporter ELSE rep
    /\ root' = IF Returned THEN <<>> ELSE root
    /\ output' = IF Returned THEN <<>> ELSE output
    /\ seen' = IF InCall THEN seen \cup {at} ELSE {}

\* Timer(name), then __enter__: start.record().
TEnter(th, name) ==
    /\ threads[th].pc = "idle"
    /\ ScopesBegun < MaxScopes
    /\ threads' = [threads EXCEPT ![th] =
          [pc |-> "scope",
           timer |-> [NewTimer(name, TRUE) EXCEPT !.start = Recorded(clock)],
           elapsed |-> 0]]
    /\ clock' = clock + 1
    /\ WorkerStep(all_times)
    /\ UNCHANGED <<all_times, streak, recorded, seqvars>>

\* __exit__: end.record(); the thread then waits in torch.cuda.synchronize().
TExitRecord(th) ==
    /\ threads[th].pc = "scope"
    /\ Enabled(threads[th].timer)
    /\ threads' = [threads EXCEPT ![th].pc = "sync",
                                  ![th].timer.end = Recorded(clock)]
    /\ clock' = clock + 1
    /\ WorkerStep(all_times)
    /\ UNCHANGED <<all_times, streak, recorded, seqvars>>

\* __exit__: torch.cuda.synchronize() returns to the waiting thread, which
\* reads elapsed = self.start.elapsed_time(self.end) from its own Timer.
TExitElapsed(th) ==
    /\ threads[th].pc = "sync"
    /\ threads' = [threads EXCEPT
          ![th].pc = "subscript",
          ![th].elapsed = ElapsedTime(threads[th].timer.start, threads[th].timer.end)]
    /\ WorkerStep(all_times)
    /\ UNCHANGED <<all_times, streak, clock, recorded, seqvars>>

\* __exit__: all_times[self.name].
TExitSubscript(th) ==
    /\ threads[th].pc = "subscript"
    /\ all_times' = Subscript(all_times, threads[th].timer.name)
    /\ threads' = [threads EXCEPT ![th].pc = "append"]
    /\ WorkerStep(all_times')
    /\ UNCHANGED <<streak, clock, recorded, seqvars>>

\* __exit__: .append(elapsed) on the list the subscript returned.
TExitAppend(th) ==
    /\ threads[th].pc = "append"
    /\ LET name == threads[th].timer.name
       IN  /\ all_times' = ListAppend(all_times, name, threads[th].elapsed)
           /\ recorded' = [recorded EXCEPT ![name] = Append(@, threads[th].elapsed)]
    /\ threads' = [threads EXCEPT ![th] = IdleThread]
    /\ WorkerStep(all_times')
    /\ UNCHANGED <<streak, clock, seqvars>>

\* print_timing_summary: root = _Node(), and iter(all_times.items()), which
\* remembers the size of the dict.
RBegin ==
    /\ rep.pc \in {"idle", "done", "failed"}
    /\ root' = <<NewNode>>
    /\ output' = <<>>
    /\ rep' = [pc |-> "next", used |-> Len(all_times), pos |-> 0]
    /\ seen' = {all_times}
    /\ UNCHANGED <<all_times, streak, clock, recorded, threads, seqvars>>

\* One step of the dict iterator: RuntimeError("dictionary changed size
\* during iteration") when the size differs, the end of the loop when the
\* items are exhausted, else the next item.
RNext ==
    /\ rep.pc = "next"
    /\ rep' = IF Len(all_times) # rep.used THEN [rep EXCEPT !.pc = "failed"]
              ELSE IF rep.pos >= Len(all_times) THEN [rep EXCEPT !.pc = "print"]
              ELSE [rep EXCEPT !.pc = "extend", !.pos = @ + 1]
    /\ root' = IF Len(all_times) # rep.used THEN <<>> ELSE root
    /\ UNCHANGED <<all_times, output, streak, clock, recorded, threads, seen, seqvars>>

\* root.extend(fullname.split('.'), lst): lst is the live list.
RExtend ==
    /\ rep.pc = "extend"
    /\ root' = NodeExtend(root, RootId, Split(all_times[rep.pos].name),
                            all_times[rep.pos].times)
    /\ rep' = [rep EXCEPT !.pc = "next"]
    /\ UNCHANGED <<all_times, output, streak, clock, recorded, threads, seen, seqvars>>

\* The header and _print_exclusive(root).
RPrint ==
    /\ rep.pc = "print"
    /\ output' = <<Header>> \o PrintExclusive(root, RootId, <<>>, 0, <<>>)
    /\ rep' = [rep EXCEPT !.pc = "done"]
    /\ UNCHANGED <<all_times, root, streak, clock, recorded, threads, seen, seqvars>>

InitThreads == Init

NextThreads ==
    \/ \E th \in Threads, name \in ThreadNames : TEnter(th, name)
    \/ \E th \in Threads : TExitRecord(th)
    \/ \E th \in Threads : TExitElapsed(th)
    \/ \E th \in Threads : TExitSubscript(th)
    \/ \E th \in Threads : TExitAppend(th)
    \/ RBegin
    \/ RNext
    \/ RExtend
    \/ RPrint

SpecThreads == InitThreads /\ [][NextThreads]_vars

----------------------------------------------------------------------------
(* Vocabulary of the properties *)

Range(s) == { s[i] : i \in 1..Len(s) }

IsPrefix(p, s) == Len(p) <= Len(s) /\ SubSeq(s, 1, Len(p)) = p

\* '.'.join(parts), the inverse of str.split('.').
RECURSIVE Join(_)
Join(parts) ==
    IF parts = <<>> THEN <<>>
    ELSE IF Len(parts) = 1 THEN parts[1]
    ELSE parts[1] \o <<Sep>> \o Join(Tail(parts))

\* A report of the current recorder state has just been generated.
Fresh == streak >= 1

\* The node lines of a report (all but the header).
NodeLines(out) == Tail(out)

\* The non-empty prefixes of a segment sequence.
Prefixes(parts) == { SubSeq(parts, 1, k) : k \in 1..Len(parts) }

AllPrefixes(at) == UNION { Prefixes(Split(at[i].name)) : i \in 1..Len(at) }

\* The samples of the key whose segment sequence is exactly path.
SamplesAt(at, path) ==
    IF \E i \in 1..Len(at) : Split(at[i].name) = path
    THEN at[CHOOSE i \in 1..Len(at) : Split(at[i].name) = path].times
    ELSE <<>>

\* The first key, in insertion order, whose segments start with prefix.
FirstKey(at, prefix) ==
    CHOOSE i \in 1..Len(at) :
        /\ IsPrefix(prefix, Split(at[i].name))
        /\ \A j \in 1..(i - 1) : ~IsPrefix(prefix, Split(at[j].name))

RECURSIVE Walk(_, _, _)
RECURSIVE WalkChildren(_, _, _, _)
\* Every node reached from id, as [node, path], parents first.
Walk(heap, id, path) ==
    <<[node |-> id, path |-> path]>> \o WalkChildren(heap, id, 1, path)

WalkChildren(heap, id, k, path) ==
    IF k > Len(heap[id].children) THEN <<>>
    ELSE Walk(heap, heap[id].children[k].node, Append(path, heap[id].children[k].name))
         \o WalkChildren(heap, id, k + 1, path)

\* Length of the longest common prefix of two sequences.
RECURSIVE Common(_, _)
Common(p, q) ==
    IF p = <<>> \/ q = <<>> \/ Head(p) # Head(q) THEN 0
    ELSE 1 + Common(Tail(p), Tail(q))

----------------------------------------------------------------------------
(* Properties of print_timing_summary on any recorder state (SpecReport) *)

\* C4, as claimed, on the names the interface allows (non-empty strings): the
\* report holds exactly one line for each distinct non-empty segment prefix of
\* a recorded name (only the header when nothing was recorded), and a node
\* without samples of its own is printed with total 0, count 0, avg 0.0.
C4_EveryNodePrinted ==
    (Fresh /\ ~HasKey(all_times, <<>>)) =>
        LET lines == NodeLines(output)
            want == AllPrefixes(all_times)
        IN  /\ output[1] = Header
            /\ { lines[i].path : i \in 1..Len(lines) } = want
            /\ Len(lines) = Cardinality(want)
            /\ \A i \in 1..Len(lines) :
                  SamplesAt(all_times, lines[i].path) = <<>> =>
                      /\ lines[i].total = 0
                      /\ lines[i].count = 0
                      /\ lines[i].avg = 0

\* C7, as claimed: samples recorded under the empty name are in the root's
\* self_times, no child of the root is created for them, and the root is not
\* printed.
C7_EmptyNameAtRoot ==
    (Fresh /\ HasKey(all_times, <<>>)) =>
        /\ root[RootId].self_times = TimesOf(all_times, <<>>)
        /\ ~HasChild(root, RootId, <<>>)
        /\ \A i \in 1..Len(NodeLines(output)) : NodeLines(output)[i].path # <<>>

\* C7, amended: samples recorded under the empty name are in the self_times
\* of the root's child for the empty segment, which is created for them; the
\* root's own self_times stays empty, and the root is not printed.
C7_EmptyNameAtEmptyChild ==
    (Fresh /\ HasKey(all_times, <<>>)) =>
        /\ HasChild(root, RootId, <<>>)
        /\ root[ChildId(root, RootId, <<>>)].self_times = TimesOf(all_times, <<>>)
        /\ root[RootId].self_times = <<>>
        /\ \A i \in 1..Len(NodeLines(output)) : NodeLines(output)[i].path # <<>>

C7_Witness ==
    /\ Fresh
    /\ HasKey(all_times, <<>>)
    /\ Len(all_times) >= 2
    /\ Len(output) >= 2

\* C8: the tree holds exactly one node per distinct segment prefix of the
\* recorded names (and the root), every node is the child of exactly one
\* node, and a node's self_times are the samples of the name that ends at it
\* and nothing else.
C8_TreeSharing ==
    Fresh =>
        LET w == Walk(root, RootId, <<>>)
        IN  /\ Len(w) = Len(root)
            /\ { w[i].node : i \in 1..Len(w) } = 1..Len(root)
            /\ \A i, j \in 1..Len(w) : w[i].path = w[j].path => i = j
            /\ { w[i].path : i \in 1..Len(w) } = AllPrefixes(all_times) \cup { <<>> }
            /\ \A i \in 1..Len(w) :
                  root[w[i].node].self_times = SamplesAt(all_times, w[i].path)

C8_Witness ==
    /\ Fresh
    /\ HasKey(all_times, <<"x", ".", "y">>)
    /\ HasKey(all_times, <<"x", ".", "z">>)
    /\ Len(root[RootId].children) = 1
    /\ Len(root[ChildId(root, RootId, <<"x">>)].children) = 2
    /\ root[ChildId(root, ChildId(root, RootId, <<"x">>), <<"y">>)].self_times
         # root[ChildId(root, ChildId(root, RootId, <<"x">>), <<"z">>)].self_times

\* C9: the lines are in depth-first pre-order: a node's line comes before
\* those of its descendants, the lines of a subtree are contiguous, and of two
\* subtrees under the same node the one whose prefix occurs first among the
\* recorder's keys, in insertion order, is printed first.
C9_ReportOrder ==
    Fresh =>
        LET lines == NodeLines(output)
        IN  /\ \A i, j \in 1..Len(lines) :
                  i < j =>
                    LET p == lines[i].path
                        q == lines[j].path
                        c == Common(p, q)
                    IN  /\ c < Len(q)
                        /\ \/ c = Len(p)
                           \/ FirstKey(all_times, SubSeq(p, 1, c + 1))
                                < FirstKey(all_times, SubSeq(q, 1, c + 1))
            /\ \A i, j, k \in 1..Len(lines) :
                  (i < j /\ j < k /\ IsPrefix(lines[i].path, lines[k].path))
                      => IsPrefix(lines[i].path, lines[j].path)

\* Siblings printed in insertion order where sorted order would differ, one
\* of them with a descendant line.
C9_Witness ==
    /\ Fresh
    /\ \E i, j, k \in 1..Len(NodeLines(output)) :
          LET lines == NodeLines(output)
          IN  /\ i < j /\ j < k
              /\ lines[i].path = <<<<"z">>>>
              /\ lines[j].path = <<<<"x">>>>
              /\ lines[k].path = <<<<"x">>, <<"y">>>>

----------------------------------------------------------------------------
(* Properties of Timer and the report on one thread of control (Spec) *)

RecordedUnder(name) == IF name \in DOMAIN recorded THEN recorded[name] ELSE <<>>

\* C1: every printed node line reports the number and the sum of the samples
\* recorded under the name that is the '.'-join of the node's path, and of no
\* other name.
C1_ExactPathStatistics ==
    Fresh =>
        \A i \in 1..Len(NodeLines(output)) :
            LET line == NodeLines(output)[i]
                own == RecordedUnder(Join(line.path))
            IN  /\ line.count = Len(own)
                /\ line.total = SumSeq(own)
                /\ line.name = line.path[Len(line.path)]
                /\ line.pad = Len(line.path)

\* A name and a longer name through it both hold samples, and were reported.
C1_Witness ==
    /\ Fresh
    /\ Len(recorded[<<"x">>]) >= 1
    /\ Len(recorded[<<"x", ".", "y">>]) >= 1
    /\ Len(output) = 3
    /\ \A i \in 1..2 : NodeLines(output)[i].count = 1

\* C2: a report leaves all_times unchanged, and a report that follows a report
\* with no other operation between them prints the same output.
C2_ReportIdempotent ==
    [][streak' >= 1 =>
          /\ all_times' = all_times
          /\ (streak >= 1 => output' = output)]_vars

C2_Witness ==
    /\ streak = 2
    /\ Len(all_times) >= 2
    /\ Len(output) >= 3

\* The step enters or exits a scope of the Timer in slot s.
ScopeStep(s) ==
    \/ /\ Len(stack') = Len(stack) + 1
       /\ stack'[Len(stack')].timer = s
    \/ /\ Len(stack') = Len(stack) - 1
       /\ stack[Len(stack)].timer = s

\* C3: a Timer created with enabled=false has no start and end events, and
\* entering or exiting it changes neither all_times nor any Timer's events.
C3_DisabledRecordsNothing ==
    /\ [](\A s \in TimerSlots :
            (timers[s].bound /\ ~timers[s].enabled) =>
                (~timers[s].start.exists /\ ~timers[s].end.exists))
    /\ [][\A s \in TimerSlots :
            (timers[s].bound /\ ~timers[s].enabled /\ ScopeStep(s)) =>
                (all_times' = all_times /\ timers' = timers /\ recorded' = recorded)]_vars

\* A disabled Timer's scope is open while the recorder holds samples.
C3_Witness ==
    /\ all_times # <<>>
    /\ \E k \in 1..Len(stack) : ~timers[stack[k].timer].enabled

\* C10, as claimed: every exit of an enabled scope appends exactly one sample,
\* to the list of the scope's own name and to no other, and the sample is the
\* time from that scope's own begin to its own end.
C10_OwnElapsed ==
    [][(Len(stack') = Len(stack) - 1 /\ timers[stack[Len(stack)].timer].enabled) =>
          LET top == stack[Len(stack)]
              name == timers[top.timer].name
          IN  /\ TimesOf(all_times', name)
                   = Append(TimesOf(all_times, name), clock - top.begin)
              /\ \A n \in NamePool \ {name} :
                   TimesOf(all_times', n) = TimesOf(all_times, n)]_vars

----------------------------------------------------------------------------
(* Properties of concurrent exits and reports (SpecThreads) *)

AllClosed == \A th \in Threads : threads[th].pc = "idle"

\* C5: once every scope has closed, each name's list holds exactly one sample
\* per scope closed under that name, and all lists together one per scope.
C5_NoSampleLost ==
    AllClosed =>
        /\ \A n \in NamePool : Len(TimesOf(all_times, n)) = Len(recorded[n])
        /\ \A n \in NamePool : Range(TimesOf(all_times, n)) = Range(recorded[n])
        /\ TotalSamples(all_times) = CountRecorded(NamePool)

\* Two scopes of the same name that overlapped in time (each lasted longer
\* than a scope running alone) have both closed.
C5_Witness ==
    /\ AllClosed
    /\ \E n \in ThreadNames :
          /\ Len(recorded[n]) = 2
          /\ recorded[n][1] >= 2
          /\ recorded[n][2] >= 2

\* C6, as claimed: a report generated while scopes are closing never fails,
\* and the counts it prints are the lengths of the sample lists at one single
\* moment of the call.
C6_ReportOnSnapshot ==
    /\ rep.pc # "failed"
    /\ rep.pc = "done" =>
          \E snap \in seen :
              /\ \A i \in 1..Len(NodeLines(output)) :
                    NodeLines(output)[i].count
                        = Len(SamplesAt(snap, NodeLines(output)[i].path))
              /\ \A k \in 1..Len(snap) :
                    \E i \in 1..Len(NodeLines(output)) :
                        NodeLines(output)[i].path = Split(snap[k].name)

====
